---- MODULE Spec2Model ----
(***************************************************************************)
(* The two example callback scripts of tools/example_script:               *)
(*   example.py                 condition / execute reading `response`     *)
(*                              and `request_data`                         *)
(*   login_bruteforce_reset.py  condition / execute posting fixed          *)
(*                              credentials                                *)
(* A script is loaded (its top-level statements run), then its hooks are   *)
(* called with a per-request metadata mapping.  The hook bodies are        *)
(* evaluated as Python evaluates them: names are resolved in the local     *)
(* scope (the parameter), then the module's globals, then the builtins; a  *)
(* name bound in none of them raises NameError.                            *)
(***************************************************************************)
EXTENDS Integers, Sequences, FiniteSets, TLC

VARIABLES
    script,       \* which of the two scripts this run is about
    lazyAnn,      \* the interpreter defers annotations (3.14+) or evaluates them at def
    loadState,    \* "unloaded" | "loaded" | "load_error"
    loadError,    \* the exception that ended the load, if any
    globals,      \* the module's global namespace: name -> kind
    data,         \* the caller's mapping object, as it is after the last call
    file,         \* successful_guesses.txt: its lines, in order
    file0,        \* the file as it was before the run
    stdout,       \* the console lines printed so far
    openHandles,  \* handles on the log file that are open now
    opens,        \* open() calls on the log file that succeeded
    posts,        \* the HTTP requests issued so far, in order
    ncalls,       \* hook calls made so far
    lastCall      \* the last finished hook call: its inputs, result and the state before

vars == <<script, lazyAnn, loadState, loadError, globals, data, file, file0,
          stdout, openHandles, opens, posts, ncalls, lastCall>>

\* ------------------------------------------------------------------ bounds

MaxCalls == 2

\* ------------------------------------------------------- program constants

OkCode == 200
LargeResponseChars == 1000

LoginURL == "https://0a3100ff0382720182647ef4006100c2.web-security-academy.net/login"

Credentials == [username |-> "wiener", password |-> "peter"]

LogFile == "successful_guesses.txt"

LargeResponseText == "Large response detected for"

\* ------------------------------------------------------------ input values

Scripts == {"example", "login_bruteforce_reset"}

Keys == {"code", "chars", "show_response", "payload"}

FullMappings ==
    [code : {200, 404}, chars : {1000, 1001}, show_response : BOOLEAN,
     payload : {"a", "b"}]

Restrict(f, S) == [k \in S |-> f[k]]

\* Every mapping the host may pass: any of the documented keys may be absent.
Mappings == {Restrict(f, S) : f \in FullMappings, S \in SUBSET Keys}

EmptyMapping == Restrict(CHOOSE f \in FullMappings : TRUE, {})

\* What the file system does to open(..., 'a') and f.write(...).
IoOutcomes == {"ok", "open_fails", "write_fails"}

\* What the network does to requests.post: a response with a status, or a
\* transport failure (status 0 stands for "no response").
NetOutcomes ==
    {[kind |-> "response", status |-> s] : s \in {200, 302, 500}}
        \cup {[kind |-> "error", status |-> 0]}

NoNet == [kind |-> "none", status |-> 0]

InitialFiles == {<< >>, <<"old">>}

\* ------------------------------------------------------------ hook results

NoEffect(d) ==
    [printed |-> << >>, appended |-> << >>, opened |-> 0, closed |-> 0,
     posts |-> << >>, data |-> d]

Returned(ret, eff) ==
    [outcome |-> "returned", exc |-> "", name |-> "", line |-> 0, ret |-> ret,
     printed |-> eff.printed, appended |-> eff.appended, opened |-> eff.opened,
     closed |-> eff.closed, posts |-> eff.posts, data |-> eff.data]

Raised(exc, name, line, eff) ==
    [outcome |-> "raised", exc |-> exc, name |-> name, line |-> line, ret |-> "",
     printed |-> eff.printed, appended |-> eff.appended, opened |-> eff.opened,
     closed |-> eff.closed, posts |-> eff.posts, data |-> eff.data]

NoResult ==
    [outcome |-> "none", exc |-> "", name |-> "", line |-> 0, ret |-> "",
     printed |-> << >>, appended |-> << >>, opened |-> 0, closed |-> 0,
     posts |-> << >>, data |-> EmptyMapping]

\* Python's repr of a bool, as the hook returns it.
PyBool(b) == IF b THEN "True" ELSE "False"

\* ------------------------------------------------------- Python evaluation

\* Names every module can read without binding them.
Builtins == {"str", "bool", "print", "open"}

\* The top-level statements of each script, in order: the names a statement
\* binds, and the names its annotations read, in evaluation order.
ExampleStatements ==
    << [kind |-> "docstring", line |-> 1, binds |-> {}, reads |-> << >>],
       [kind |-> "def", line |-> 11, binds |-> {"condition"},
        reads |-> <<"Dict", "str", "Any", "bool">>],
       [kind |-> "def", line |-> 19, binds |-> {"execute"},
        reads |-> <<"Dict", "str", "Any">>] >>

LoginStatements ==
    << [kind |-> "docstring", line |-> 1, binds |-> {}, reads |-> << >>],
       [kind |-> "import", line |-> 11, binds |-> {"requests"}, reads |-> << >>],
       [kind |-> "import", line |-> 12, binds |-> {"Dict", "Any"}, reads |-> << >>],
       [kind |-> "def", line |-> 14, binds |-> {"condition"},
        reads |-> <<"Dict", "str", "Any", "bool">>],
       [kind |-> "def", line |-> 22, binds |-> {"execute"},
        reads |-> <<"Dict", "str", "Any">>] >>

Statements(s) == IF s = "example" THEN ExampleStatements ELSE LoginStatements

NoGlobals == [n \in {} |-> ""]

\* The first name of `reads` that is bound neither in G nor in the builtins
\* ("" when there is none).
RECURSIVE FirstUnbound(_, _, _)
FirstUnbound(reads, i, G) ==
    IF i > Len(reads) THEN ""
    ELSE IF reads[i] \in DOMAIN G \cup Builtins THEN FirstUnbound(reads, i + 1, G)
    ELSE reads[i]

\* Running the statements from the i-th on, with the globals G bound so far.
\* A def evaluates its annotations when it runs, unless annotations are deferred.
RECURSIVE LoadFrom(_, _, _, _)
LoadFrom(stmts, i, G, lazy) ==
    IF i > Len(stmts) THEN [ok |-> TRUE, globals |-> G, exc |-> "", name |-> "", line |-> 0]
    ELSE LET st == stmts[i]
             missing == IF st.kind = "def" /\ ~lazy THEN FirstUnbound(st.reads, 1, G)
                        ELSE ""
         IN IF missing # ""
            THEN [ok |-> FALSE, globals |-> G, exc |-> "NameError", name |-> missing,
                  line |-> st.line]
            ELSE LoadFrom(stmts, i + 1, [n \in st.binds |-> st.kind] @@ G, lazy)

LoadModule(s, lazy) == LoadFrom(Statements(s), 1, NoGlobals, lazy)

\* Scope with `response` and `request_data` bound to the parameter, as if the
\* bodies read `data`.
ScopeAliasesData(d, G) == [response |-> d, request_data |-> d] @@ [data |-> d] @@ G

\* The names a hook body can read: its parameter, then the module's globals.
Scope(d, G) == [data |-> d] @@ G

Bound(n, scope) == n \in DOMAIN scope

\* dict.get(k, default)
Get(m, k, default) == IF k \in DOMAIN m THEN m[k] ELSE default

\* ------------------------------------------------------------- example.py

ConditionExample(d, G) ==
    LET scope == Scope(d, G)
    IN IF ~Bound("response", scope)
       THEN Raised("NameError", "response", 17, NoEffect(d))
       ELSE LET response == scope["response"]
            IN Returned(PyBool("code" \in DOMAIN response /\ response["code"] = OkCode),
                        NoEffect(d))

ExecuteExample(d, G, io) ==
    LET scope == Scope(d, G)
        eff0 == NoEffect(d)
    IN IF ~Bound("response", scope) THEN Raised("NameError", "response", 24, eff0)
       ELSE
       LET response == scope["response"]
           large == Get(response, "chars", 0) > LargeResponseChars
       IN IF large /\ ~Bound("request_data", scope)
          THEN Raised("NameError", "request_data", 25, eff0)
          ELSE IF large /\ "candidate_char" \notin DOMAIN scope["request_data"]
          THEN Raised("KeyError", "candidate_char", 25, eff0)
          ELSE
          LET eff1 == IF large
                      THEN [eff0 EXCEPT !.printed =
                               << [text |-> LargeResponseText,
                                   arg |-> scope["request_data"]["candidate_char"]] >>]
                      ELSE eff0
          IN IF ~Get(response, "show_response", FALSE) THEN Returned("None", eff1)
             ELSE IF io = "open_fails" THEN Raised("OSError", LogFile, 29, eff1)
             ELSE
             \* inside `with`: the handle is closed on every way out of the block
             LET eff2 == [eff1 EXCEPT !.opened = 1, !.closed = 1]
             IN IF ~Bound("request_data", scope)
                THEN Raised("NameError", "request_data", 30, eff2)
                ELSE IF "candidate_string" \notin DOMAIN scope["request_data"]
                THEN Raised("KeyError", "candidate_string", 30, eff2)
                ELSE IF io = "write_fails" THEN Raised("OSError", LogFile, 30, eff2)
                ELSE Returned("None",
                         [eff2 EXCEPT !.appended =
                             <<scope["request_data"]["candidate_string"]>>])

\* ----------------------------------------------- login_bruteforce_reset.py

ConditionLogin(d, G) == Returned(PyBool(TRUE), NoEffect(d))

\* execute taking the password from data['payload'] when it is there.
ExecuteLoginReadsData(d, G, net) ==
    LET eff1 == [NoEffect(d) EXCEPT !.posts =
                    << [method |-> "POST", url |-> LoginURL,
                        body |-> [Credentials EXCEPT
                                     !.password = Get(d, "payload", @)]] >>]
    IN IF net.kind = "error" THEN Raised("RequestException", "", 31, eff1)
       ELSE Returned("None", eff1)

\* execute storing the response's status into data['code'].
ExecuteLoginStoresStatus(d, G, net) ==
    LET eff1 == [NoEffect(d) EXCEPT !.posts =
                    << [method |-> "POST", url |-> LoginURL, body |-> Credentials] >>]
    IN IF net.kind = "error" THEN Raised("RequestException", "", 31, eff1)
       ELSE Returned("None", [eff1 EXCEPT !.data = [code |-> net.status] @@ d])

\* execute calling raise_for_status() on the response.
ExecuteLoginChecksStatus(d, G, net) ==
    LET eff1 == [NoEffect(d) EXCEPT !.posts =
                    << [method |-> "POST", url |-> LoginURL, body |-> Credentials] >>]
    IN IF net.kind = "error" THEN Raised("RequestException", "", 31, eff1)
       ELSE IF net.status >= 400 THEN Raised("HTTPError", "", 31, eff1)
       ELSE Returned("None", eff1)

ExecuteLogin(d, G, net) ==
    LET scope == Scope(d, G)
        eff0 == NoEffect(d)
    IN IF ~Bound("requests", scope) THEN Raised("NameError", "requests", 31, eff0)
       ELSE LET credentials == Credentials
                eff1 == [eff0 EXCEPT !.posts =
                            << [method |-> "POST", url |-> LoginURL,
                                body |-> credentials] >>]
            IN IF net.kind = "error" THEN Raised("RequestException", "", 31, eff1)
               ELSE Returned("None", eff1)

\* ---------------------------------------------------------------- actions

NoCall ==
    [hook |-> "none", dataBefore |-> EmptyMapping, io |-> "ok", net |-> NoNet,
     res |-> NoResult, fileBefore |-> << >>, stdoutBefore |-> << >>,
     postsBefore |-> << >>, handlesBefore |-> 0, opensBefore |-> 0]

Init ==
    /\ script \in Scripts
    /\ lazyAnn \in BOOLEAN
    /\ loadState = "unloaded"
    /\ loadError = [exc |-> "", name |-> "", line |-> 0]
    /\ globals = NoGlobals
    /\ data = EmptyMapping
    /\ file0 \in InitialFiles
    /\ file = file0
    /\ stdout = << >>
    /\ openHandles = 0
    /\ opens = 0
    /\ posts = << >>
    /\ ncalls = 0
    /\ lastCall = NoCall

\* The script is loaded: its top-level statements run once.
Load ==
    /\ loadState = "unloaded"
    /\ LET r == LoadModule(script, lazyAnn)
       IN /\ loadState' = IF r.ok THEN "loaded" ELSE "load_error"
          /\ globals' = r.globals
          /\ loadError' = [exc |-> r.exc, name |-> r.name, line |-> r.line]
    /\ UNCHANGED <<script, lazyAnn, data, file, file0, stdout, openHandles, opens,
                   posts, ncalls, lastCall>>

\* The effects of one finished hook call on the world.
Apply(hook, d, io, net, res) ==
    /\ data' = res.data
    /\ file' = file \o res.appended
    /\ stdout' = stdout \o res.printed
    /\ openHandles' = openHandles + res.opened - res.closed
    /\ opens' = opens + res.opened
    /\ posts' = posts \o res.posts
    /\ ncalls' = ncalls + 1
    /\ lastCall' = [hook |-> hook, dataBefore |-> d, io |-> io, net |-> net,
                    res |-> res, fileBefore |-> file, stdoutBefore |-> stdout,
                    postsBefore |-> posts, handlesBefore |-> openHandles,
                    opensBefore |-> opens]
    /\ UNCHANGED <<script, lazyAnn, loadState, loadError, globals, file0>>

CallCondition(d) ==
    /\ loadState = "loaded"
    /\ "condition" \in DOMAIN globals
    /\ ncalls < MaxCalls
    /\ Apply("condition", d, "ok", NoNet,
             IF script = "example" THEN ConditionExample(d, globals)
             ELSE ConditionLogin(d, globals))

\* What can happen to the calls a script's execute makes: example.py touches the
\* file system only, login_bruteforce_reset.py the network only.
IoFor(s) == IF s = "example" THEN IoOutcomes ELSE {"ok"}

NetFor(s) == IF s = "example" THEN {NoNet} ELSE NetOutcomes

CallExecute(d, io, net) ==
    /\ loadState = "loaded"
    /\ "execute" \in DOMAIN globals
    /\ ncalls < MaxCalls
    /\ Apply("execute", d, io, net,
             IF script = "example" THEN ExecuteExample(d, globals, io)
             ELSE ExecuteLogin(d, globals, net))

Next ==
    \/ Load
    \/ \E d \in Mappings : CallCondition(d)
    \/ \E d \in Mappings, io \in IoFor(script), net \in NetFor(script) :
           CallExecute(d, io, net)

Spec == Init /\ [][Next]_vars

\* ------------------------------------------------------------------ claims

InExample(h) == script = "example" /\ lastCall.hook = h

InLogin(h) == script = "login_bruteforce_reset" /\ lastCall.hook = h

ShowResponse(d) == Get(d, "show_response", FALSE)

IsPrefix(s, t) == Len(s) <= Len(t) /\ SubSeq(t, 1, Len(s)) = s

\* C1: every finished execute(data) of example.py whose data has a truthy
\* show_response (the file system working) leaves successful_guesses.txt as
\* its previous content followed by exactly one new line.
C1_AppendsOneLinePerCall ==
    (InExample("execute") /\ ShowResponse(lastCall.dataBefore) /\ lastCall.io = "ok")
        => /\ Len(file) = Len(lastCall.fileBefore) + 1
           /\ IsPrefix(lastCall.fileBefore, file)

\* C2: every execute(data) of login_bruteforce_reset.py issues exactly one
\* POST, to the fixed login URL, with the body username=wiener,
\* password=peter, whatever data holds.
C2_OnePostFixedBody ==
    InLogin("execute")
        => posts = lastCall.postsBefore \o
                     << [method |-> "POST",
                         url |-> "https://0a3100ff0382720182647ef4006100c2.web-security-academy.net/login",
                         body |-> [username |-> "wiener", password |-> "peter"]] >>

\* C2 witness: a second execute call, on the empty mapping, has finished.
C2_Witness ==
    /\ InLogin("execute")
    /\ lastCall.dataBefore = EmptyMapping
    /\ Len(posts) = 2

\* C3: for every data without a show_response key, execute(data) of
\* example.py returns normally, does not open the log file and leaves it
\* unchanged.
C3_MissingShowResponseReturns ==
    (InExample("execute") /\ "show_response" \notin DOMAIN lastCall.dataBefore)
        => /\ lastCall.res.outcome = "returned"
           /\ lastCall.res.opened = 0
           /\ file = lastCall.fileBefore

\* C5: condition(data) of example.py returns a boolean for every data: True
\* exactly when data holds code = 200, False otherwise, also when code is
\* absent.
C5_ConditionIsCode200 ==
    InExample("condition")
        => /\ lastCall.res.outcome = "returned"
           /\ lastCall.res.ret =
                  PyBool("code" \in DOMAIN lastCall.dataBefore
                         /\ lastCall.dataBefore["code"] = 200)

\* C6: after any call of condition(data) or execute(data), of either script,
\* returned or failed, data has exactly the keys and values it had before.
C6_DataUnchanged ==
    lastCall.hook # "none" => data = lastCall.dataBefore

\* C6 witness: a call on a mapping with every key has failed.
C6_Witness ==
    /\ lastCall.hook = "execute"
    /\ lastCall.res.outcome = "raised"
    /\ DOMAIN lastCall.dataBefore = Keys

\* C7: within one execute call of example.py that is to log (truthy
\* show_response, the file system working) the log file is opened, appended
\* to and closed, and no handle opened by the call is open at its end.
C7_OpenedAppendedClosed ==
    (InExample("execute") /\ ShowResponse(lastCall.dataBefore) /\ lastCall.io = "ok")
        => /\ lastCall.res.opened = 1
           /\ lastCall.res.closed = 1
           /\ Len(lastCall.res.appended) = 1
           /\ openHandles = lastCall.handlesBefore

\* C8: execute of login_bruteforce_reset.py issues one POST and no second
\* one; on any HTTP response, whatever its status, it returns normally; a
\* transport failure is not caught and surfaces as an error.
C8_NoResponseHandling ==
    InLogin("execute")
        => /\ Len(posts) = Len(lastCall.postsBefore) + 1
           /\ lastCall.net.kind = "response"
                  => lastCall.res.outcome = "returned" /\ lastCall.res.ret = "None"
           /\ lastCall.net.kind = "error"
                  => lastCall.res.outcome = "raised"
                     /\ lastCall.res.exc = "RequestException"

\* C8 witness: the POST was answered with status 500 and execute returned.
C8_Witness ==
    /\ InLogin("execute")
    /\ lastCall.net.kind = "response"
    /\ lastCall.net.status = 500
    /\ lastCall.res.outcome = "returned"

\* C9: execute(data) of example.py prints the 'Large response detected' line
\* exactly when data's chars is greater than 1000 (missing counts as 0).
C9_PrintsIffLarge ==
    InExample("execute")
        => /\ Len(stdout) <= Len(lastCall.stdoutBefore) + 1
           /\ (Len(stdout) = Len(lastCall.stdoutBefore) + 1)
                  <=> (Get(lastCall.dataBefore, "chars", 0) > 1000)

\* C10: in example.py as written every call of condition and of execute ends
\* in NameError at its first lookup (`response`, line 17 or line 24), before
\* any console output and before the log file is opened; the log file is
\* never changed.
C10_EveryCallUnboundName ==
    script = "example"
        => /\ file = file0
           /\ stdout = << >>
           /\ opens = 0
           /\ lastCall.hook # "none"
                  => /\ lastCall.res.outcome = "raised"
                     /\ lastCall.res.exc = "NameError"
                     /\ lastCall.res.name = "response"
                     /\ lastCall.res.line = IF lastCall.hook = "condition" THEN 17 ELSE 24

\* C10 witness: the second call was execute on a mapping with a large response
\* and a truthy show_response, the file system working.
C10_Witness ==
    /\ InExample("execute")
    /\ ncalls = 2
    /\ ShowResponse(lastCall.dataBefore)
    /\ Get(lastCall.dataBefore, "chars", 0) > 1000
    /\ lastCall.io = "ok"

====
